---- MODULE Spec2Model ----
(***************************************************************************)
(* fastapi_filterstyles: the two query-string filter dependencies          *)
(* (delimited_filter, deep_object_filter) and the pydantic construction of *)
(* the filter model they end in.                                           *)
(*                                                                         *)
(* Strings are sequences of atoms.  An atom is a run of characters that    *)
(* holds no divider ("eq", "shell", "is_empty") or one of the two dividers *)
(* ":" and "__", so that str.split is computed, not assumed.               *)
(***************************************************************************)
EXTENDS Integers, Sequences, FiniteSets, TLC

VARIABLES filter_cls, style, pc, signature, filter_fields, kwargs, params, idx, pos, outcome

vars == <<filter_cls, style, pc, signature, filter_fields, kwargs, params, idx, pos, outcome>>

\* ------------------------------------------------------------ bounds
\* Longest list of raw tokens one delimited query key carries.
MaxTokens == 3
\* Most deep-object / plain parameters a request sets (the rest are None).
MaxArgs == 2

\* ------------------------------------------------------------ python values
PyNone == [t |-> "none"]
PyTrue == [t |-> "bool"]
PyStr(s) == [t |-> "str", s |-> s]
PyList(xs) == [t |-> "list", items |-> xs]
PyDict(d) == [t |-> "dict", d |-> d]
EmptyDict == <<>>

\* s.split(d): the segments of s between the occurrences of the divider d.
RECURSIVE Split(_, _)
Split(s, d) ==
    IF \A n \in 1..Len(s) : s[n] # d
    THEN <<s>>
    ELSE LET n == CHOOSE m \in 1..Len(s) : s[m] = d /\ \A l \in 1..(m - 1) : s[l] # d
         IN  <<SubSeq(s, 1, n - 1)>> \o Split(SubSeq(s, n + 1, Len(s)), d)

\* ------------------------------------------------------------ fields.py
\* A type annotation: its kind, the type of the raw value it holds, and what
\* typing.get_args gives for it.
Scalar(item) == [kind |-> "scalar", item |-> item, args |-> <<>>]
ListOf(item) == [kind |-> "list", item |-> item, args |-> <<Scalar(item)>>]
NoneType == [kind |-> "none", item |-> "none", args |-> <<>>]
LiteralTrue == [kind |-> "literal", item |-> "true", args |-> <<>>]
OptionalOf(a) == [kind |-> "optional", item |-> a.item, args |-> <<a, NoneType>>]
Annotated(a) == [kind |-> "annotated", item |-> a.item, args |-> <<a>>]

\* One declared operator field of a filter type: its attribute name, the
\* alias pydantic populates it by, whether its Field carries flag=True, and
\* its declared annotation.
\* DefaultList = Annotated[list[T], Field(default_factory=list)]
DefaultList(n, item) ==
    [name |-> <<n>>, alias |-> <<n>>, flag |-> FALSE, annotation |-> Annotated(ListOf(item))]
\* FlagField = Annotated[Optional[Literal[True]], Field(flag=True)]
FlagField(n) ==
    [name |-> <<n>>, alias |-> <<n>>, flag |-> TRUE, annotation |-> Annotated(OptionalOf(LiteralTrue))]
\* in_: list[T] = Field(default_factory=list, alias="in")
AliasedList(n, a, item) ==
    [name |-> <<n>>, alias |-> <<a>>, flag |-> FALSE, annotation |-> ListOf(item)]

\* class StringFilter(BaseFilter)
StringFilter ==
    << DefaultList("eq", "str"), DefaultList("neq", "str"),
       DefaultList("contains", "str"), DefaultList("not_contains", "str"),
       DefaultList("starts_with", "str"), DefaultList("ends_with", "str"),
       FlagField("is_empty"), FlagField("is_not_empty"),
       AliasedList("in_", "in", "str"), DefaultList("not_in", "str") >>

\* class IntFilter(BaseFilter)
IntFilter ==
    << DefaultList("eq", "int"), DefaultList("neq", "int"),
       DefaultList("gt", "int"), DefaultList("lt", "int"),
       DefaultList("gte", "int"), DefaultList("lte", "int"),
       FlagField("is_empty"), FlagField("is_not_empty") >>

\* issubclass(field.type_, BaseFilter); a plain field has type "str"
IsBaseFilter(type_) == type_ \in {"StringFilter", "IntFilter"}

\* BaseFilter.default_operator, which no filter type overrides
DefaultOperator(type_) == <<"eq">>

\* type_.__fields__: the operator fields of a filter type, in declaration order
TypeFields(type_) ==
    CASE type_ = "StringFilter" -> StringFilter
      [] type_ = "IntFilter" -> IntFilter
      [] OTHER -> <<>>

Range(seq) == {seq[n] : n \in 1..Len(seq)}

FieldNames(type_) == {f.name : f \in Range(TypeFields(type_))}
SubField(type_, p) == CHOOSE f \in Range(TypeFields(type_)) : f.name = p

\* dict[k] = v
Put(d, k, v) == [x \in DOMAIN d \cup {k} |-> IF x = k THEN v ELSE d[x]]
\* dict.get(k): None when the key is absent
Get(d, k) == IF k \in DOMAIN d THEN d[k] ELSE PyNone

\* ------------------------------------------------------------ filter schemas
\* A field of the filter model handed to delimited_filter / deep_object_filter:
\* its attribute name, Field(alias=...) ("" when none is given), its type, and
\* Field(operators=[...]) (None when none is given).
ModelField(key, alias, type_, operators) ==
    [key |-> key, alias |-> alias, type_ |-> type_, operators |-> operators]

NoAlias == <<>>

\* name: StringFilter; q: Optional[str] = None
NameFilter ==
    << ModelField(<<"name">>, NoAlias, "StringFilter", PyNone),
       ModelField(<<"q">>, NoAlias, "str", PyNone) >>
\* name: StringFilter = Field(operators=["eq", "neq"])
WhitelistFilter ==
    << ModelField(<<"name">>, NoAlias, "StringFilter", PyList(<< <<"eq">>, <<"neq">> >>)) >>
\* age: IntFilter; created__gte: Optional[str] = None
AgeFilter ==
    << ModelField(<<"age">>, NoAlias, "IntFilter", PyNone),
       ModelField(<<"created", "__", "gte">>, NoAlias, "str", PyNone) >>
\* owner: StringFilter = Field(alias="ownerName")
AliasFilter ==
    << ModelField(<<"owner">>, <<"ownerName">>, "StringFilter", PyNone) >>
\* name: StringFilter = Field(operators=["eq", "bogus"])
BadWhitelistFilter ==
    << ModelField(<<"name">>, NoAlias, "StringFilter", PyList(<< <<"eq">>, <<"bogus">> >>)) >>

FilterClasses ==
    {"NameFilter", "WhitelistFilter", "AgeFilter", "AliasFilter", "BadWhitelistFilter"}

\* filter_cls.__fields__, in declaration order
Fields(cls) ==
    CASE cls = "NameFilter" -> NameFilter
      [] cls = "WhitelistFilter" -> WhitelistFilter
      [] cls = "AgeFilter" -> AgeFilter
      [] cls = "AliasFilter" -> AliasFilter
      [] cls = "BadWhitelistFilter" -> BadWhitelistFilter

\* ------------------------------------------------------------ api.py: building the dependency
\* `x or y` on strings: the empty string is falsy
Or(x, y) == IF x # <<>> THEN x ELSE y

\* [sub_field.field_info.alias or field_name for ... in field.type_.__fields__.items()]
DeclaredOperators(type_) == [n \in 1..Len(TypeFields(type_)) |-> TypeFields(type_)[n].alias]

\* extra.get("operators", [...]) of delimited_filter
PatternOperators(field) ==
    IF field.operators # PyNone THEN field.operators.items ELSE DeclaredOperators(field.type_)

\* One synthesized inspect.Parameter: its name, the Query alias (deep object),
\* its annotation, and the operators its pattern / documented schema names.
Parameter(name, alias, annotation, operators) ==
    [name |-> name, alias |-> alias, annotation |-> annotation, operators |-> operators]

\* list[str], the annotation of a delimited filter parameter
ListOfStr == ListOf("token")

\* delimited_filter, the loop that builds `params`
DelimitedParameter(field) ==
    IF IsBaseFilter(field.type_)
    THEN Parameter(Or(field.alias, field.key), NoAlias, ListOfStr, PatternOperators(field))
    ELSE Parameter(Or(field.alias, field.key), NoAlias, Scalar(field.type_), <<>>)

DelimitedSignature(cls) == [n \in 1..Len(Fields(cls)) |-> DelimitedParameter(Fields(cls)[n])]

\* get_args(p_value.annotation)[0] if any, else the annotation
SubAnnotation(sf) ==
    IF sf.annotation.args # <<>> THEN sf.annotation.args[1] ELSE sf.annotation

\* schema["properties"] of the umbrella parameter: the type's properties (by
\* alias), restricted to the whitelist when one is given
SchemaProperties(field) ==
    LET all == DeclaredOperators(field.type_)
    IN  IF field.operators # PyNone /\ field.operators.items # <<>>
        THEN SelectSeq(all, LAMBDA k : k \in Range(field.operators.items))
        ELSE all

\* deep_object_filter, the parameters one schema field expands to
DeepObjectParameters(field) ==
    IF IsBaseFilter(field.type_)
    THEN [n \in 1..Len(TypeFields(field.type_)) |->
             LET sf == TypeFields(field.type_)[n]
             IN  Parameter(field.key \o <<"__">> \o sf.name,
                           field.key \o <<"[">> \o sf.name \o <<"]">>,
                           SubAnnotation(sf), <<>>)]
         \o << Parameter(field.key, NoAlias, NoneType, SchemaProperties(field)) >>
    ELSE << Parameter(field.key, NoAlias, Scalar(field.type_), <<>>) >>

RECURSIVE DeepObjectParams(_)
DeepObjectParams(fields) ==
    IF fields = <<>> THEN <<>>
    ELSE DeepObjectParameters(Head(fields)) \o DeepObjectParams(Tail(fields))

DeepObjectSignature(cls) == DeepObjectParams(Fields(cls))

\* filter_fields of deep_object_filter: the keys whose type is a BaseFilter
DeepObjectFilterFields(cls) == {f.key : f \in {g \in Range(Fields(cls)) : IsBaseFilter(g.type_)}}

\* ------------------------------------------------------------ raw request values
\* The words raw tokens are made of: operator keywords, a flag keyword, a
\* keyword no filter type declares, and two values ("7" parses as an int).
OperatorWords == {"eq", "contains", "is_empty", "bogus"}
ValueWords == {"a", "7"}
BareWords == ValueWords \cup {"is_empty", "contains"}

\* value | operator:value | operator:value:value
Tokens ==
    {<<w>> : w \in BareWords}
    \cup {<<h, ":", "a">> : h \in OperatorWords}
    \cup {<<"eq", ":", "7">>, <<"contains", ":", "a", ":", "7">>}

\* arg_val of a delimited parameter: a non-empty list of raw tokens
TokenLists == UNION {[1..n -> Tokens] : n \in 1..MaxTokens}

\* int(v) succeeds
IsInt(v) == v # <<>> /\ \A n \in 1..Len(v) : v[n] \in {"7"}

\* The raw values of a type that pass the framework's own validation
ItemValues(item) == IF item = "int" THEN {<<"7">>} ELSE {<<"a">>, <<"7">>}

\* What the request framework can pass for a parameter of annotation a, once
\* it has validated the raw query value against the annotation; None (the
\* parameter's default) when the query holds no such key.
BoundValues(a) ==
    CASE a.kind = "list" /\ a.item = "token" -> {PyList(l) : l \in TokenLists}
      [] a.kind = "list" /\ a.item # "token" ->
             {PyList(<<v>>) : v \in ItemValues(a.item)}
             \cup {PyList(<<v, <<"7">> >>) : v \in ItemValues(a.item)}
      [] a.kind = "scalar" -> {PyStr(v) : v \in ItemValues(a.item)}
      [] a.kind = "optional" -> {PyTrue}
      [] OTHER -> {}

\* ------------------------------------------------------------ pydantic construction
\* The annotation under Annotated[...]
Inner(sf) == IF sf.annotation.kind = "annotated" THEN sf.annotation.args[1] ELSE sf.annotation

Error(field, op, index, type) == [field |-> field, op |-> op, index |-> index, type |-> type]

ValidItem(item, v) == IF item = "int" THEN IsInt(v) ELSE TRUE

\* The errors of validating the value v given for operator field sf.
SubFieldErrors(key, sf, v) ==
    IF Inner(sf).kind = "optional"
    THEN IF v \in {PyTrue, PyNone} THEN {} ELSE {Error(key, sf.alias, 0, "literal")}
    ELSE IF v.t # "list" THEN {Error(key, sf.alias, 0, "list")}
    ELSE {Error(key, sf.alias, n, Inner(sf).item) :
             n \in {m \in 1..Len(v.items) : ~ValidItem(Inner(sf).item, v.items[m])}}

\* BaseFilter declares no Config, so pydantic's Extra.ignore applies: a key of d
\* that is no field alias is ignored, and fields are populated by alias only.
FilterErrors(key, type_, d) ==
    UNION {SubFieldErrors(key, sf, d[sf.alias]) :
              sf \in {f \in Range(TypeFields(type_)) : f.alias \in DOMAIN d}}

FilterValue(type_, d) ==
    [p \in FieldNames(type_) |->
        LET sf == SubField(type_, p)
        IN  IF sf.alias \in DOMAIN d THEN d[sf.alias]
            ELSE IF Inner(sf).kind = "list" THEN PyList(<<>>) ELSE PyNone]

\* A filter attribute declared without a default is required; the plain
\* fields are Optional with default None.
Required(field) == IsBaseFilter(field.type_)

FieldErrors(field, data) ==
    LET k == Or(field.alias, field.key)
    IN  IF k \notin DOMAIN data
        THEN IF Required(field) THEN {Error(k, <<>>, 0, "missing")} ELSE {}
        ELSE IF ~IsBaseFilter(field.type_) THEN {}
        ELSE IF data[k].t # "dict" THEN {Error(k, <<>>, 0, "dict")}
        ELSE FilterErrors(k, field.type_, data[k].d)

FieldValue(field, data) ==
    LET k == Or(field.alias, field.key)
    IN  IF k \notin DOMAIN data THEN PyNone
        ELSE IF IsBaseFilter(field.type_) /\ data[k].t = "dict"
        THEN PyDict(FilterValue(field.type_, data[k].d))
        ELSE data[k]

\* e.errors() of filter_cls(**data): every failed field, not the first only
ValidationErrors(cls, data) == UNION {FieldErrors(f, data) : f \in Range(Fields(cls))}

ModelValue(cls, data) == [k \in {f.key : f \in Range(Fields(cls))} |->
                             FieldValue(CHOOSE f \in Range(Fields(cls)) : f.key = k, data)]

NoOutcome == [kind |-> "none", instance |-> <<>>, detail |-> {}]
Returned(instance) == [kind |-> "instance", instance |-> instance, detail |-> {}]
HTTPException(detail) == [kind |-> "http422", instance |-> <<>>, detail |-> detail]
Uncaught(name) == [kind |-> name, instance |-> <<>>, detail |-> {}]

\* try: return filter_cls(**params) / except ValidationError: raise HTTPException(422)
Construct(cls, data) ==
    IF ValidationErrors(cls, data) = {}
    THEN Returned(ModelValue(cls, data))
    ELSE HTTPException(ValidationErrors(cls, data))

\* ------------------------------------------------------------ api.py: delimited dependency
\* DelimitedToken without `if len(val_array) == 1: op = default_operator`.
DelimitedTokenNoDefault(type_, operations, val) ==
    LET val_array == Split(val, ":")
        first == val_array[1]
    IN  IF first \in FieldNames(type_) /\ SubField(type_, first).flag
        THEN [raised |-> FALSE, operations |-> Put(operations, first, PyTrue)]
        ELSE LET fil == val_array[Len(val_array)]
                 bucket == IF first \notin DOMAIN operations THEN PyList(<<>>) ELSE operations[first]
             IN  [raised |-> FALSE,
                  operations |-> Put(operations, first, PyList(Append(bucket.items, fil)))]

\* DelimitedToken with the flag test made only for a token without `:`.
DelimitedTokenBareFlag(type_, operations, val) ==
    LET val_array == Split(val, ":")
        first == val_array[1]
    IN  IF Len(val_array) = 1 /\ first \in FieldNames(type_) /\ SubField(type_, first).flag
        THEN [raised |-> FALSE, operations |-> Put(operations, first, PyTrue)]
        ELSE LET op == IF Len(val_array) = 1 THEN DefaultOperator(type_) ELSE first
                 fil == val_array[Len(val_array)]
                 bucket == IF op \notin DOMAIN operations \/ operations[op].t # "list"
                           THEN PyList(<<>>) ELSE operations[op]
             IN  [raised |-> FALSE,
                  operations |-> Put(operations, op, PyList(Append(bucket.items, fil)))]

\* DelimitedToken with list.append replaced by an insert at the front.
DelimitedTokenPrepend(type_, operations, val) ==
    LET val_array == Split(val, ":")
        first == val_array[1]
    IN  IF first \in FieldNames(type_) /\ SubField(type_, first).flag
        THEN [raised |-> FALSE, operations |-> Put(operations, first, PyTrue)]
        ELSE LET op == IF Len(val_array) = 1 THEN DefaultOperator(type_) ELSE first
                 fil == val_array[Len(val_array)]
                 bucket == IF op \notin DOMAIN operations THEN PyList(<<>>) ELSE operations[op]
             IN  [raised |-> FALSE,
                  operations |-> Put(operations, op, PyList(<<fil>> \o bucket.items))]

\* The body of `for val in arg_val` for one raw token: the operations mapping
\* after it, or raised when list.append meets an entry that is no list.
DelimitedToken(type_, operations, val) ==
    LET val_array == Split(val, ":")
        first == val_array[1]
    IN  IF first \in FieldNames(type_) /\ SubField(type_, first).flag
        THEN [raised |-> FALSE, operations |-> Put(operations, first, PyTrue)]
        ELSE LET op == IF Len(val_array) = 1 THEN DefaultOperator(type_) ELSE first
                 fil == val_array[Len(val_array)]
                 bucket == IF op \notin DOMAIN operations THEN PyList(<<>>) ELSE operations[op]
             IN  IF bucket.t # "list"
                 THEN [raised |-> TRUE, operations |-> operations]
                 ELSE [raised |-> FALSE,
                       operations |-> Put(operations, op, PyList(Append(bucket.items, fil)))]

\* The whole `for val in arg_val` loop, from the operations mapping given.
RECURSIVE DelimitedOperations(_, _, _)
DelimitedOperations(type_, operations, arg_val) ==
    IF arg_val = <<>> THEN [raised |-> FALSE, operations |-> operations]
    ELSE LET one == DelimitedToken(type_, operations, Head(arg_val))
         IN  IF one.raised THEN one ELSE DelimitedOperations(type_, one.operations, Tail(arg_val))

\* The params entry the loop over filter_cls.__fields__ leaves for one field.
DelimitedParam(field, kw) ==
    LET arg_val == Get(kw, field.key)
    IN  IF ~IsBaseFilter(field.type_) THEN [raised |-> FALSE, value |-> arg_val]
        ELSE IF arg_val = PyNone THEN [raised |-> FALSE, value |-> PyDict(EmptyDict)]
        ELSE LET r == DelimitedOperations(field.type_, EmptyDict, arg_val.items)
             IN  [raised |-> r.raised, value |-> PyDict(r.operations)]

\* dependency(**kw) of delimited_filter(cls), start to end
DelimitedDependency(cls, kw) ==
    IF \E f \in Range(Fields(cls)) : DelimitedParam(f, kw).raised
    THEN Uncaught("AttributeError")
    ELSE Construct(cls, [k \in {f.key : f \in Range(Fields(cls))} |->
                            DelimitedParam(CHOOSE f \in Range(Fields(cls)) : f.key = k, kw).value])

\* ------------------------------------------------------------ api.py: deep object dependency
\* params = {key: {} for key in filter_fields}
DeepObjectInitial(ff) == [k \in ff |-> PyDict(EmptyDict)]

\* The body of `for k, v in kwargs.items()` for one keyword argument.
DeepObjectKwarg(ff, data, k, v) ==
    IF k \in ff \/ v = PyNone THEN [raised |-> "", params |-> data]
    ELSE LET split_key == Split(k, "__")
         IN  IF Len(split_key) = 1 THEN [raised |-> "", params |-> Put(data, k, v)]
             ELSE IF split_key[1] \notin DOMAIN data THEN [raised |-> "KeyError", params |-> data]
             ELSE IF data[split_key[1]].t # "dict" THEN [raised |-> "TypeError", params |-> data]
             ELSE [raised |-> "",
                   params |-> Put(data, split_key[1],
                                  PyDict(Put(data[split_key[1]].d, split_key[2], v)))]

\* ------------------------------------------------------------ the state machine
\* import time: a filter model is handed to one of the two dependency builders
Init ==
    /\ filter_cls \in FilterClasses
    /\ style \in {"delimited", "deep_object"}
    /\ pc = "import"
    /\ signature = <<>>
    /\ filter_fields = {}
    /\ kwargs = EmptyDict
    /\ params = EmptyDict
    /\ idx = 0
    /\ pos = 0
    /\ outcome = NoOutcome

\* delimited_filter(filter_cls): dependency.__signature__ is set and the
\* dependency returned; nothing in it raises
delimited_filter ==
    /\ pc = "import" /\ style = "delimited"
    /\ signature' = DelimitedSignature(filter_cls)
    /\ pc' = "bind"
    /\ idx' = 1
    /\ UNCHANGED <<filter_cls, style, filter_fields, kwargs, params, pos, outcome>>

\* deep_object_filter(filter_cls)
deep_object_filter ==
    /\ pc = "import" /\ style = "deep_object"
    /\ signature' = DeepObjectSignature(filter_cls)
    /\ filter_fields' = DeepObjectFilterFields(filter_cls)
    /\ pc' = "bind"
    /\ idx' = 1
    /\ UNCHANGED <<filter_cls, style, kwargs, params, pos, outcome>>

NonNone(kw) == Cardinality({k \in DOMAIN kw : kw[k] # PyNone})

\* The request framework binds the next parameter of the signature: a value
\* of its annotation, or its default None.  After the last one it calls the
\* dependency with the keyword arguments bound.
Bind ==
    /\ pc = "bind"
    /\ \E v \in BoundValues(signature[idx].annotation) \cup {PyNone} :
          /\ v # PyNone => NonNone(kwargs) < MaxArgs
          /\ kwargs' = Put(kwargs, signature[idx].name, v)
    /\ IF idx = Len(signature)
       THEN pc' = "call" /\ idx' = 1
       ELSE pc' = "bind" /\ idx' = idx + 1
    /\ UNCHANGED <<filter_cls, style, signature, filter_fields, params, pos, outcome>>

\* delimited dependency, one pass of `for key, field in filter_cls.__fields__.items()`
\* up to the token loop
DelimitedField ==
    /\ pc = "call" /\ style = "delimited" /\ idx <= Len(Fields(filter_cls))
    /\ LET field == Fields(filter_cls)[idx]
           arg_val == Get(kwargs, field.key)
       IN  IF ~IsBaseFilter(field.type_)
           THEN /\ params' = Put(params, field.key, arg_val)
                /\ idx' = idx + 1
                /\ UNCHANGED <<pc, pos>>
           ELSE /\ params' = Put(params, field.key, PyDict(EmptyDict))
                /\ IF arg_val = PyNone
                   THEN idx' = idx + 1 /\ UNCHANGED <<pc, pos>>
                   ELSE pc' = "tokens" /\ pos' = 1 /\ UNCHANGED idx
    /\ UNCHANGED <<filter_cls, style, signature, filter_fields, kwargs, outcome>>

\* delimited dependency, one pass of `for val in arg_val`
DelimitedLoop ==
    /\ pc = "tokens"
    /\ LET field == Fields(filter_cls)[idx]
           arg_val == Get(kwargs, field.key).items
           r == DelimitedToken(field.type_, params[field.key].d, arg_val[pos])
       IN  IF r.raised
           THEN /\ outcome' = Uncaught("AttributeError")
                /\ pc' = "done"
                /\ UNCHANGED <<params, idx, pos>>
           ELSE /\ params' = Put(params, field.key, PyDict(r.operations))
                /\ UNCHANGED outcome
                /\ IF pos = Len(arg_val)
                   THEN pc' = "call" /\ idx' = idx + 1 /\ UNCHANGED pos
                   ELSE pos' = pos + 1 /\ UNCHANGED <<pc, idx>>
    /\ UNCHANGED <<filter_cls, style, signature, filter_fields, kwargs>>

\* delimited dependency, the try / except around filter_cls(**params)
DelimitedConstruct ==
    /\ pc = "call" /\ style = "delimited" /\ idx > Len(Fields(filter_cls))
    /\ outcome' = Construct(filter_cls, params)
    /\ pc' = "done"
    /\ UNCHANGED <<filter_cls, style, signature, filter_fields, kwargs, params, idx, pos>>

\* deep object dependency, `for key in filter_fields: params[key] = {}`
DeepObjectStart ==
    /\ pc = "call" /\ style = "deep_object"
    /\ params' = DeepObjectInitial(filter_fields)
    /\ pc' = "kwargs"
    /\ idx' = 1
    /\ UNCHANGED <<filter_cls, style, signature, filter_fields, kwargs, pos, outcome>>

\* deep object dependency, one pass of `for k, v in kwargs.items()`
DeepObjectLoop ==
    /\ pc = "kwargs" /\ idx <= Len(signature)
    /\ LET k == signature[idx].name
           r == DeepObjectKwarg(filter_fields, params, k, kwargs[k])
       IN  IF r.raised # ""
           THEN /\ outcome' = Uncaught(r.raised)
                /\ pc' = "done"
                /\ UNCHANGED <<params, idx>>
           ELSE /\ params' = r.params
                /\ idx' = idx + 1
                /\ UNCHANGED <<pc, outcome>>
    /\ UNCHANGED <<filter_cls, style, signature, filter_fields, kwargs, pos>>

\* deep object dependency, the try / except around filter_cls(**params)
DeepObjectConstruct ==
    /\ pc = "kwargs" /\ idx > Len(signature)
    /\ outcome' = Construct(filter_cls, params)
    /\ pc' = "done"
    /\ UNCHANGED <<filter_cls, style, signature, filter_fields, kwargs, params, idx, pos>>

Next ==
    \/ delimited_filter
    \/ deep_object_filter
    \/ Bind
    \/ DelimitedField
    \/ DelimitedLoop
    \/ DelimitedConstruct
    \/ DeepObjectStart
    \/ DeepObjectLoop
    \/ DeepObjectConstruct

Spec == Init /\ [][Next]_vars

\* ------------------------------------------------------------ reading a raw token
HasColon(tok) == \E n \in 1..Len(tok) : tok[n] = ":"
FirstColon(tok) == CHOOSE n \in 1..Len(tok) : tok[n] = ":" /\ \A m \in 1..(n - 1) : tok[m] # ":"
LastColon(tok) == CHOOSE n \in 1..Len(tok) : tok[n] = ":" /\ \A m \in (n + 1)..Len(tok) : tok[m] # ":"

\* The part of a token up to its first `:` (the whole token when it has none)
\* and the part after its first `:`.
OperatorPart(tok) == IF HasColon(tok) THEN SubSeq(tok, 1, FirstColon(tok) - 1) ELSE tok
WholeValue(tok) == SubSeq(tok, FirstColon(tok) + 1, Len(tok))

FlagNames(type_) == {f.name : f \in {g \in Range(TypeFields(type_)) : g.flag}}
\* The token's operator part names a flag operator of the type.
SetsFlag(type_, tok) == OperatorPart(tok) \in FlagNames(type_)

\* The operator a value-bearing token resolves to, and the value the decoder
\* reads from it (its last `:`-segment).
ResolvedOperator(type_, tok) == IF HasColon(tok) THEN OperatorPart(tok) ELSE DefaultOperator(type_)
ResolvedValue(tok) == IF HasColon(tok) THEN SubSeq(tok, LastColon(tok) + 1, Len(tok)) ELSE tok

\* The values, in arrival order, of the tokens of toks that resolve to op.
ValuesFor(type_, toks, op) ==
    LET sel == SelectSeq(toks, LAMBDA t : ~SetsFlag(type_, t) /\ ResolvedOperator(type_, t) = op)
    IN  [n \in 1..Len(sel) |-> ResolvedValue(sel[n])]

Delimited == style = "delimited" /\ pc \in {"call", "tokens", "done"}
DeepObject == style = "deep_object" /\ pc \in {"kwargs", "done"}

\* The tokens of schema field n the delimited dependency has been through.
Processed(n) ==
    LET arg_val == Get(kwargs, Fields(filter_cls)[n].key)
    IN  IF ~Delimited \/ arg_val = PyNone \/ ~IsBaseFilter(Fields(filter_cls)[n].type_) THEN <<>>
        ELSE IF pc = "tokens" /\ idx = n THEN SubSeq(arg_val.items, 1, pos - 1)
        ELSE IF idx > n THEN arg_val.items
        ELSE <<>>

\* The filter fields of the schema that have an operations mapping in params.
Decoding == {n \in 1..Len(Fields(filter_cls)) :
                IsBaseFilter(Fields(filter_cls)[n].type_) /\ Fields(filter_cls)[n].key \in DOMAIN params}
\* The filter fields whose token loop has ended.
Decoded == {n \in Decoding : Delimited /\ idx > n}

\* The allowed operators of a filter attribute: its Field(operators=[...])
\* whitelist when it has one, else every operator of its type (wire keywords).
AllowedOperators(field) ==
    IF field.operators # PyNone THEN Range(field.operators.items)
    ELSE {sf.alias : sf \in Range(TypeFields(field.type_))}

\* ------------------------------------------------------------ C1
\* C1: when the delimited dependency has ended and a token `op:x` it went
\* through names an operator op that is not an allowed operator of the
\* attribute, it ended in the 422 HTTPException.
C1_UnknownOperatorRejected ==
    (pc = "done" /\ style = "delimited") =>
        \A n \in Decoded :
            (\E t \in Range(Processed(n)) :
                HasColon(t) /\ OperatorPart(t) \notin AllowedOperators(Fields(filter_cls)[n]))
            => outcome.kind = "http422"

\* ------------------------------------------------------------ C2
\* toks with `<default_operator>:` put before each token that has no `:`;
\* with flagsToo FALSE the tokens that name a flag operator are left as they are.
WithDefaultOperator(type_, toks, flagsToo) ==
    [m \in 1..Len(toks) |->
        IF ~HasColon(toks[m]) /\ (flagsToo \/ toks[m] \notin FlagNames(type_))
        THEN DefaultOperator(type_) \o <<":">> \o toks[m]
        ELSE toks[m]]

\* C2 as stated: the operations mapping the token loop builds is the one it
\* builds when every token v without `:` is replaced by `<default_operator>:v`,
\* also for a v spelled like a flag operator.
C2_BareEqualsDefaultPrefixed ==
    Delimited => \A n \in Decoding :
        params[Fields(filter_cls)[n].key].d =
            DelimitedOperations(Fields(filter_cls)[n].type_, EmptyDict,
                WithDefaultOperator(Fields(filter_cls)[n].type_, Processed(n), TRUE)).operations

\* C2 amended: the operations mapping the token loop builds is the one it
\* builds when every token v without `:` that is not the name of a flag
\* operator of the attribute's type is replaced by `<default_operator>:v`.
C2_BareNonFlagEqualsDefaultPrefixed ==
    Delimited => \A n \in Decoding :
        params[Fields(filter_cls)[n].key].d =
            DelimitedOperations(Fields(filter_cls)[n].type_, EmptyDict,
                WithDefaultOperator(Fields(filter_cls)[n].type_, Processed(n), FALSE)).operations

\* A bare token spelled like an operator keyword has been decoded: it is a
\* value in the default operator's bucket.
C2_Witness ==
    /\ pc = "done" /\ style = "delimited" /\ outcome.kind = "instance"
    /\ \E n \in Decoded :
          /\ <<"contains">> \in Range(Processed(n))
          /\ <<"eq">> \in DOMAIN params[Fields(filter_cls)[n].key].d
          /\ <<"contains">> \in Range(params[Fields(filter_cls)[n].key].d[<<"eq">>].items)
          /\ <<"contains">> \notin DOMAIN params[Fields(filter_cls)[n].key].d

\* ------------------------------------------------------------ C3
\* C3: every token `op:v` gone through whose op is no flag operator has put v
\* whole, everything after the first `:`, into op's bucket.
C3_ValueKeptWhole ==
    Delimited =>
        \A n \in Decoding :
            LET operations == params[Fields(filter_cls)[n].key].d
            IN  \A t \in Range(Processed(n)) :
                    (HasColon(t) /\ ~SetsFlag(Fields(filter_cls)[n].type_, t)) =>
                        /\ OperatorPart(t) \in DOMAIN operations
                        /\ WholeValue(t) \in Range(operations[OperatorPart(t)].items)

\* ------------------------------------------------------------ C4
\* The raw string of a bound deep-object value.
RawOf(v) == IF v = PyTrue THEN <<"true">> ELSE IF v.t = "list" THEN v.items[1] ELSE v.s

\* C4: when the deep object dependency has ended on a request that holds the
\* one key `attribute[op]=v`, its outcome is the outcome of the delimited
\* dependency on `attribute=<op's wire keyword>:v`.
C4_SameInstanceBothStyles ==
    (pc = "done" /\ style = "deep_object") =>
        \A f \in {g \in Range(Fields(filter_cls)) : IsBaseFilter(g.type_)} :
            \A sf \in Range(TypeFields(f.type_)) :
                LET k == f.key \o <<"__">> \o sf.name
                IN  (/\ {x \in DOMAIN kwargs : kwargs[x] # PyNone} = {k}
                     /\ kwargs[k].t = "list" => Len(kwargs[k].items) = 1)
                    => outcome = DelimitedDependency(filter_cls,
                           [x \in {f.key} |-> PyList(<<sf.alias \o <<":">> \o RawOf(kwargs[k])>>)])

\* ------------------------------------------------------------ C5
\* C5: in the delimited dependency, at every point of the token loop and after
\* it, the bucket of each value-bearing operator is exactly the sequence of
\* the values of the tokens gone through so far that resolve to that operator,
\* in arrival order (so N such tokens give a bucket of length N), whatever
\* tokens of other operators and flag tokens stand between them; an operator
\* no token resolves to has no bucket.
C5_BucketsInArrivalOrder ==
    Delimited =>
        \A n \in Decoding :
            LET type_ == Fields(filter_cls)[n].type_
                operations == params[Fields(filter_cls)[n].key].d
                toks == Processed(n)
                ops == {k \in DOMAIN operations : operations[k].t = "list"}
                       \cup {ResolvedOperator(type_, t) :
                                t \in {u \in Range(toks) : ~SetsFlag(type_, u)}}
            IN  \A op \in ops :
                    /\ op \in DOMAIN operations
                    /\ operations[op] = PyList(ValuesFor(type_, toks, op))
                    /\ ValuesFor(type_, toks, op) # <<>>

\* Three tokens, the first and third for one operator with different values,
\* the second for another operator: the first operator's bucket holds the two
\* values in arrival order.
C5_Witness ==
    /\ pc = "done" /\ style = "delimited" /\ outcome.kind = "instance"
    /\ \E n \in Decoded :
          LET type_ == Fields(filter_cls)[n].type_
              toks == Processed(n)
          IN  /\ Len(toks) = 3
              /\ \A m \in 1..3 : ~SetsFlag(type_, toks[m])
              /\ ResolvedOperator(type_, toks[1]) = ResolvedOperator(type_, toks[3])
              /\ ResolvedOperator(type_, toks[2]) # ResolvedOperator(type_, toks[1])
              /\ ResolvedValue(toks[1]) # ResolvedValue(toks[3])
              /\ params[Fields(filter_cls)[n].key].d[ResolvedOperator(type_, toks[1])]
                    = PyList(<<ResolvedValue(toks[1]), ResolvedValue(toks[3])>>)

\* ------------------------------------------------------------ C6
\* The place of the parameter called name in the signature.
ParameterIndex(name) == CHOOSE n \in 1..Len(signature) : signature[n].name = name

\* The flag entries of every operations mapping are the value True, never a list.
FlagsAreTrue ==
    \A n \in Decoding :
        LET operations == params[Fields(filter_cls)[n].key].d
        IN  \A f \in FlagNames(Fields(filter_cls)[n].type_) :
                f \in DOMAIN operations => operations[f] = PyTrue

\* Deep object: flag f is in the mapping exactly when `attribute[f]=true` was
\* bound and the loop over kwargs has passed it.
DeepObjectFlags ==
    DeepObject =>
        \A n \in Decoding :
            \A f \in FlagNames(Fields(filter_cls)[n].type_) :
                LET k == Fields(filter_cls)[n].key \o <<"__">> \o f
                IN  f \in DOMAIN params[Fields(filter_cls)[n].key].d
                        <=> (kwargs[k] = PyTrue /\ ParameterIndex(k) < idx)

\* C6 as stated: flag f is true in the decoded mapping exactly when the bare
\* token f was supplied (delimited) or `attribute[f]=true` was (deep object),
\* else f is absent; a flag's entry is never a list.
C6_FlagIffBareToken ==
    /\ FlagsAreTrue
    /\ DeepObjectFlags
    /\ Delimited =>
          \A n \in Decoding :
              \A f \in FlagNames(Fields(filter_cls)[n].type_) :
                  f \in DOMAIN params[Fields(filter_cls)[n].key].d
                      <=> f \in Range(Processed(n))

\* C6 amended: flag f is true in the decoded mapping exactly when a token
\* whose part before the first `:` is f was supplied, the bare token f or
\* `f:anything` (delimited), or `attribute[f]=true` was (deep object), else f
\* is absent; a flag's entry is never a list.
C6_FlagIffOperatorPart ==
    /\ FlagsAreTrue
    /\ DeepObjectFlags
    /\ Delimited =>
          \A n \in Decoding :
              \A f \in FlagNames(Fields(filter_cls)[n].type_) :
                  f \in DOMAIN params[Fields(filter_cls)[n].key].d
                      <=> \E t \in Range(Processed(n)) : OperatorPart(t) = f

\* A flag set by a token `f:x` alone, no bare token f among the tokens.
C6_Witness ==
    /\ pc = "done" /\ style = "delimited" /\ outcome.kind = "instance"
    /\ \E n \in Decoded :
          /\ <<"is_empty", ":", "a">> \in Range(Processed(n))
          /\ <<"is_empty">> \notin Range(Processed(n))
          /\ params[Fields(filter_cls)[n].key].d[<<"is_empty">>] = PyTrue
          /\ outcome.instance[Fields(filter_cls)[n].key].d[<<"is_empty">>] = PyTrue

\* ------------------------------------------------------------ C7
\* C7: a dependency that has ended has returned the filter instance or raised
\* the 422 HTTPException whose detail is every error of the construction.
C7_InstanceOr422 ==
    pc = "done" =>
        \/ outcome.kind = "instance" /\ ValidationErrors(filter_cls, params) = {}
        \/ /\ outcome.kind = "http422"
           /\ outcome.detail = ValidationErrors(filter_cls, params)
           /\ outcome.detail # {}

\* ------------------------------------------------------------ C8
\* C8: in a returned instance every operator that is set (a non-empty bucket
\* or a flag) is an allowed operator of its attribute, and the deep object
\* signature holds an extraction parameter only for allowed operators.
C8_OnlyAllowedOperators ==
    \A f \in {g \in Range(Fields(filter_cls)) : IsBaseFilter(g.type_)} :
        \A sf \in Range(TypeFields(f.type_)) :
            /\ (/\ pc = "done" /\ outcome.kind = "instance"
                /\ outcome.instance[f.key].d[sf.name] \notin {PyList(<<>>), PyNone})
               => sf.alias \in AllowedOperators(f)
            /\ (/\ style = "deep_object" /\ pc # "import"
                /\ \E n \in 1..Len(signature) : signature[n].name = f.key \o <<"__">> \o sf.name)
               => sf.alias \in AllowedOperators(f)

\* ------------------------------------------------------------ C9
\* C9: building the dependency completes only when every operator whitelist
\* names operators its filter type defines.
C9_BadWhitelistAbortsBuild ==
    pc # "import" =>
        \A f \in {g \in Range(Fields(filter_cls)) : IsBaseFilter(g.type_)} :
            f.operators # PyNone =>
                Range(f.operators.items) \subseteq
                    {sf.alias : sf \in Range(TypeFields(f.type_))} \cup FieldNames(f.type_)

\* ------------------------------------------------------------ C10
\* C10: the names of the delimited signature are the names the dependency
\* reads, and a value bound under a parameter's name is the value used for
\* its field.
C10_ParameterNamesAreRead ==
    Delimited =>
        /\ {signature[n].name : n \in 1..Len(signature)} = {f.key : f \in Range(Fields(filter_cls))}
        /\ \A n \in 1..Len(signature) :
              (idx > n /\ pc = "done" /\ Get(kwargs, signature[n].name) # PyNone) =>
                  /\ Fields(filter_cls)[n].key \in DOMAIN params
                  /\ params[Fields(filter_cls)[n].key] =
                        DelimitedParam(Fields(filter_cls)[n],
                            [x \in {Fields(filter_cls)[n].key} |-> kwargs[signature[n].name]]).value

====
